---- MODULE Spec2Model ----
(***************************************************************************)
(* Model of src/orchestration/flows/bl832/move.py: the flow                *)
(* process_new_832_file, which moves one file spot832 -> data832 ->        *)
(* nersc832, posts a SciCat ingest job and schedules two prune flows.      *)
(*                                                                         *)
(* Strings are sequences of tokens.  The token "/" is the path separator,  *)
(* the token "global" is the text global, every other token is a text      *)
(* that holds neither "/" nor the letter g, so the text "/global" occurs   *)
(* in a string exactly where the tokens "/" and "global" are adjacent.     *)
(***************************************************************************)
EXTENDS Integers, Sequences, FiniteSets, TLC

\* Longest input path, in tokens.
MaxLen == 6

SEP == "/"
MARKER == "global"
Tokens == {SEP, MARKER, "raw"}

\* Invocations of the flow for one file.
MaxRuns == 2

\* All token strings of length at most n.
StringsUpTo(n) == UNION {[1..k -> Tokens] : k \in 0..n}

\* Input paths of each kind: /global/raw and /global/raw/raw, /global (an
\* empty remainder), /global/raw/global (the marker twice) and /raw (no
\* marker).
SamplePaths ==
    { <<SEP, MARKER, SEP, "raw">>,
      <<SEP, MARKER, SEP, "raw", SEP, "raw">>,
      <<SEP, MARKER>>,
      <<SEP, MARKER, SEP, "raw", SEP, MARKER>>,
      <<SEP, "raw">> }

VARIABLES
    file_path,      \* the argument of process_new_832_file
    pc,             \* the statement process_new_832_file executes next
    err,            \* the exception that ended the run, "none" otherwise
    relative_path,  \* the local relative_path, NoValue before line 117
    bl832_settings, \* the local bl832_settings, NoSettings before line 128
    trace,          \* the steps the flow has invoked, in order
    transfers,      \* the requests handed to start_transfer, in order
    hops,           \* the outcome of each start_transfer call, in order
    ingests,        \* the jobs handed to scicat.submit_ingest, in order
    ingest_result,  \* the outcome of the ingestion step, "none" before it
    scheduled,      \* the calls of schedule_prefect_flow, in order
    new_file,       \* the local new_file of test_transfers_832
    wait,           \* the wait of the start_transfer call in progress
    parked,         \* the locals of the run that is not executing
    run_no,         \* the number of this invocation for the file
    previous        \* the requests of each earlier invocation, for comparison

\* The state outside the two flows' locals and requests.
outside == <<wait, parked, run_no, previous>>

\* The state that process_new_832_file itself never touches.
extra == <<new_file, outside>>

vars == <<file_path, pc, err, relative_path, bl832_settings, trace,
          transfers, hops, ingests, ingest_result, scheduled, extra>>

NoValue == <<"<unset>">>

\* bl832_settings before line 128: no key read yet
NoSettings == [key \in {} |-> 0]

(***************************************************************************)
(* String helpers: Python's str and os.path as move.py uses them.          *)
(***************************************************************************)

\* s.startswith(t) at 1-based position i
MatchAt(s, t, i) ==
    /\ i >= 1
    /\ i + Len(t) - 1 <= Len(s)
    /\ \A k \in 1..Len(t) : s[i + k - 1] = t[k]

\* s.find(t): the first position of t in s, 0 when there is none
Find(s, t) ==
    LET hits == {i \in 1..Len(s) : MatchAt(s, t, i)}
    IN  IF hits = {} THEN 0 ELSE CHOOSE i \in hits : \A j \in hits : i <= j

\* s.split(t): the pieces of s between the occurrences of t, left to right
\* (i and rest are bound as set elements so that they are evaluated once)
RECURSIVE str_split(_, _)
str_split(s, t) ==
    CHOOSE pieces \in
        { IF i = 0
          THEN <<s>>
          ELSE CHOOSE more \in
                   { <<SubSeq(s, 1, i - 1)>> \o str_split(rest, t) :
                         rest \in {SubSeq(s, i + Len(t), Len(s))} } : TRUE
          : i \in {Find(s, t)} } : TRUE

\* if file_path[0] == "/": file_path = file_path[1:]   (file_path not empty)
strip_leading_sep(p) == IF p[1] = SEP THEN Tail(p) ELSE p

\* os.path.join(a, b) of posixpath
os_path_join(a, b) ==
    IF b # <<>> /\ b[1] = SEP THEN b
    ELSE IF a = <<>> \/ a[Len(a)] = SEP THEN a \o b
    ELSE a \o <<SEP>> \o b

\* The segments of a path: the pieces between its separators.
Segments(p) == str_split(p, <<SEP>>)

\* sep.join(segs)
RECURSIVE JoinSegments(_)
JoinSegments(segs) ==
    IF segs = <<>> THEN <<>>
    ELSE IF Len(segs) = 1 THEN segs[1]
    ELSE segs[1] \o <<SEP>> \o JoinSegments(Tail(segs))

\* pathlib.Path(p).parts without the anchor: the segments that are not empty
path_parts(p) == SelectSeq(Segments(p), LAMBDA seg : seg # <<>>)

\* The anchor of pathlib.PurePosixPath(p): "" for a relative path, "//" for
\* exactly two leading separators, "/" otherwise
path_anchor(p) ==
    LET lead == {n \in 0..Len(p) : \A k \in 1..n : p[k] = SEP}
        n == CHOOSE m \in lead : \A k \in lead : k <= m
    IN  IF n = 0 THEN <<>> ELSE IF n = 2 THEN <<SEP, SEP>> ELSE <<SEP>>

\* str(pathlib.Path(p).with_name(name)), for a path whose name is not empty
with_name(p, name) ==
    LET parts == path_parts(p)
    IN  path_anchor(p) \o JoinSegments(SubSeq(parts, 1, Len(parts) - 1) \o <<name>>)

\* pathlib.Path(p).name: the last segment that is not empty, "" if none
path_name(p) ==
    LET parts == path_parts(p)
    IN  IF parts = <<>> THEN <<>> ELSE parts[Len(parts)]

(***************************************************************************)
(* Configuration and collaborators.  Config832, start_transfer,            *)
(* scicat.submit_ingest, the Secret and JSON blocks and                    *)
(* schedule_prefect_flow are imported by move.py; their outcomes are the   *)
(* ones the specification gives them.                                      *)
(***************************************************************************)

\* Config832(): the three endpoints (one root path ends with a separator)
spot832 == [name |-> "spot832", root_path |-> <<SEP, "spot832_root">>]
data832 == [name |-> "data832", root_path |-> <<SEP, "data832_root", SEP>>]
nersc832 == [name |-> "nersc832", root_path |-> <<SEP, "nersc832_root">>]

\* max_wait_seconds=600 of both start_transfer calls
max_wait_seconds == 600

\* TransferOutcome of the Transfer Monitor
TransferOutcomes == {"Succeeded", "TimedOut", "Failed"}

\* How start_transfer reports an outcome: as its result, or by raising.
\* Success is always the result True.
TransferReports(outcome) ==
    IF outcome = "Succeeded" THEN {"return"} ELSE {"return", "raise"}

\* The ingestion step: the token is missing, the job is accepted, the
\* service answers with a non-success response, or the submission raises.
IngestOutcomes == {"NoToken", "Accepted", "Rejected", "Raised"}

\* The JSON block bl832-settings: absent, or a value holding some of the keys
SpotDaysKey == "delete_spot832_files_after_days"
DataDaysKey == "delete_data832_files_after_days"
RetentionDays == {14, 30}
SettingsValues ==
    UNION {[keys -> RetentionDays] : keys \in SUBSET {SpotDaysKey, DataDaysKey}}

\* schedule_prefect_flow: the scheduler accepts the job or rejects it (raises)
ScheduleOutcomes == {"Accepted", "Rejected"}

(***************************************************************************)
(* The tasks' requests                                                     *)
(***************************************************************************)

\* TransferRequest without the max_wait_seconds argument
TransferRequest_without_deadline(path, source, dest) ==
    LET stripped == strip_leading_sep(path)
    IN  [source_endpoint |-> source.name,
         source_path |-> os_path_join(source.root_path, stripped),
         dest_endpoint |-> dest.name,
         dest_path |-> os_path_join(dest.root_path, stripped)]

\* transfer_spot_to_data / transfer_data_to_nersc, lines 29-43 and 57-73:
\* the request handed to start_transfer for a file path that is not empty
TransferRequest(path, source, dest) ==
    LET stripped == strip_leading_sep(path)
    IN  [source_endpoint |-> source.name,
         source_path |-> os_path_join(source.root_path, stripped),
         dest_endpoint |-> dest.name,
         dest_path |-> os_path_join(dest.root_path, stripped),
         max_wait_seconds |-> max_wait_seconds]

\* ingest_scicat, lines 95-103: the job handed to scicat.submit_ingest
IngestJob(path) ==
    [jobs_api_url |-> "jobs_api_url",
     ingest_path |-> os_path_join(<<SEP, "data_mover", SEP, "8.3.2">>,
                                  strip_leading_sep(path)),
     token |-> "scicat-token",
     ingestor |-> "als832_dx_3"]

\* SpotDeleteJob with the two retention settings crossed
SpotDeleteJob_crossed_days(fp, rel, settings) ==
    [flow |-> "prune_spot832/prune_spot832",
     flow_name |-> <<"delete spot832: ">> \o path_name(fp),
     parameters |-> [relative_path |-> rel],
     days |-> settings[DataDaysKey]]

\* lines 130-138: the call that schedules the prune of the spot832 copy
SpotDeleteJob(fp, rel, settings) ==
    [flow |-> "prune_spot832/prune_spot832",
     flow_name |-> <<"delete spot832: ">> \o path_name(fp),
     parameters |-> [relative_path |-> rel],
     days |-> settings[SpotDaysKey]]

\* DataDeleteJob with the flow of the first call left in place
DataDeleteJob_spot_flow_again(fp, rel, settings) ==
    [flow |-> "prune_spot832/prune_spot832",
     flow_name |-> <<"delete data832: ">> \o path_name(fp),
     parameters |-> [relative_path |-> rel],
     days |-> settings[DataDaysKey]]

\* lines 143-149: the call that schedules the prune of the data832 copy
DataDeleteJob(fp, rel, settings) ==
    [flow |-> "prune_data832/prune_data832",
     flow_name |-> <<"delete data832: ">> \o path_name(fp),
     parameters |-> [relative_path |-> rel],
     days |-> settings[DataDaysKey]]

(***************************************************************************)
(* process_new_832_file                                                    *)
(***************************************************************************)

\* No start_transfer call in progress.
NoWait == [elapsed |-> 0, reports |-> TRUE]

\* One invocation, alone, not waiting.
OutsideInit ==
    /\ wait = NoWait
    /\ parked = <<>>
    /\ run_no = 1
    /\ previous = <<>>

Init ==
    /\ file_path \in StringsUpTo(MaxLen)
    /\ pc = "normalize"
    /\ err = "none"
    /\ relative_path = NoValue
    /\ bl832_settings = NoSettings
    /\ trace = <<>>
    /\ transfers = <<>>
    /\ hops = <<>>
    /\ ingests = <<>>
    /\ ingest_result = "none"
    /\ scheduled = <<>>
    /\ new_file = NoValue
    /\ OutsideInit

\* An exception leaves the flow: the run ends failed.
Raise(e) == pc' = "Failed" /\ err' = e

Goto(next) == pc' = next /\ err' = err

\* line 117: file_path.split("/global")
split_global(p) == str_split(p, <<SEP, MARKER>>)

\* line 117: relative_path = file_path.split("/global")[1]
normalize ==
    /\ pc = "normalize"
    /\ trace' = Append(trace, "normalize")
    /\ LET pieces == split_global(file_path)
       IN  IF Len(pieces) < 2
           THEN Raise("IndexError") /\ UNCHANGED relative_path
           ELSE Goto("transfer_spot_to_data") /\ relative_path' = pieces[2]
    /\ UNCHANGED <<file_path, bl832_settings, transfers, hops, ingests,
                   ingest_result, scheduled>>
    /\ UNCHANGED extra

\* A transfer task called with a path, lines 20-45 and 48-75: the result of
\* start_transfer is returned to the flow, which drops it.
TransferTaskOf(path, step, source, dest, next) ==
    /\ pc = step
    /\ trace' = Append(trace, step)
    /\ IF path = <<>>
       THEN Raise("IndexError") /\ UNCHANGED <<transfers, hops>>
       ELSE \E outcome \in TransferOutcomes :
            \E report \in TransferReports(outcome) :
               /\ transfers' = Append(transfers,
                                      TransferRequest(path, source, dest))
               /\ hops' = Append(hops, [outcome |-> outcome, report |-> report])
               /\ IF report = "raise" THEN Raise("TransferError") ELSE Goto(next)
    /\ UNCHANGED <<file_path, relative_path, bl832_settings, ingests,
                   ingest_result, scheduled>>
    /\ UNCHANGED extra

\* A transfer task of process_new_832_file, called with relative_path
\* (lines 118 and 121)
TransferTask(step, source, dest, next) ==
    TransferTaskOf(relative_path, step, source, dest, next)

\* transfer_spot_to_data with the ingestion placed before the second hop
transfer_spot_to_data_then_ingest ==
    TransferTask("transfer_spot_to_data", spot832, data832, "ingest_scicat")

\* line 118
transfer_spot_to_data ==
    TransferTask("transfer_spot_to_data", spot832, data832, "transfer_data_to_nersc")

\* A transfer task that submits again when start_transfer returns a failure
TransferTaskRetrying(step, source, dest, next) ==
    /\ pc = step
    /\ trace' = Append(trace, step)
    /\ relative_path # <<>>
    /\ \E outcome \in TransferOutcomes :
          /\ transfers' = Append(transfers,
                                 TransferRequest(relative_path, source, dest))
          /\ hops' = Append(hops, [outcome |-> outcome, report |-> "return"])
          /\ Goto(IF outcome = "Succeeded" THEN next ELSE step)
    /\ UNCHANGED <<file_path, relative_path, bl832_settings, ingests,
                   ingest_result, scheduled>>
    /\ UNCHANGED extra

\* transfer_data_to_nersc with a retry of the failed hop
transfer_data_to_nersc_retrying ==
    TransferTaskRetrying("transfer_data_to_nersc", data832, nersc832,
                         "ingest_scicat")

\* line 121
transfer_data_to_nersc ==
    TransferTask("transfer_data_to_nersc", data832, nersc832, "ingest_scicat")

\* line 126 and lines 86-104: the response of submit_ingest is only logged
ingest_scicat ==
    /\ pc = "ingest_scicat"
    /\ trace' = Append(trace, "ingest_scicat")
    /\ \E outcome \in IngestOutcomes :
          /\ ingest_result' = outcome
          /\ IF outcome = "NoToken"
             THEN Raise("SecretError") /\ UNCHANGED ingests
             ELSE IF relative_path = <<>>
             THEN Raise("IndexError") /\ UNCHANGED ingests
             ELSE /\ ingests' = Append(ingests, IngestJob(relative_path))
                  /\ IF outcome = "Raised"
                     THEN Raise("IngestError")
                     ELSE Goto("load_settings")
    /\ UNCHANGED <<file_path, relative_path, bl832_settings, transfers, hops,
                   scheduled>>
    /\ UNCHANGED extra

\* load_settings with the data832 setting read only after the spot832 job
\* has been scheduled
load_settings_data_days_read_late ==
    /\ pc = "load_settings"
    /\ trace' = Append(trace, "load_settings")
    /\ \E value \in SettingsValues :
          /\ bl832_settings' = value
          /\ IF SpotDaysKey \notin DOMAIN value
             THEN Raise("KeyError") /\ UNCHANGED scheduled
             ELSE IF DataDaysKey \notin DOMAIN value
             THEN /\ scheduled' =
                        Append(scheduled,
                               [job |-> SpotDeleteJob(file_path, relative_path, value),
                                outcome |-> "Accepted"])
                  /\ Raise("KeyError")
             ELSE Goto("schedule_spot832") /\ UNCHANGED scheduled
    /\ UNCHANGED <<file_path, relative_path, transfers, hops, ingests,
                   ingest_result>>
    /\ UNCHANGED extra

\* lines 128-132: load the settings block and read both retention settings
load_settings ==
    /\ pc = "load_settings"
    /\ trace' = Append(trace, "load_settings")
    /\ \/ Raise("BlockError") /\ UNCHANGED bl832_settings
       \/ \E value \in SettingsValues :
             /\ bl832_settings' = value
             /\ IF {SpotDaysKey, DataDaysKey} \subseteq DOMAIN value
                THEN Goto("schedule_spot832")
                ELSE Raise("KeyError")
    /\ UNCHANGED <<file_path, relative_path, transfers, hops, ingests,
                   ingest_result, scheduled>>
    /\ UNCHANGED extra

\* A call of schedule_prefect_flow: a rejected registration raises
ScheduleCall(step, job, next) ==
    /\ pc = step
    /\ trace' = Append(trace, step)
    /\ \E outcome \in ScheduleOutcomes :
          /\ scheduled' = Append(scheduled, [job |-> job, outcome |-> outcome])
          /\ IF outcome = "Rejected" THEN Raise("SchedulingError") ELSE Goto(next)
    /\ UNCHANGED <<file_path, relative_path, bl832_settings, transfers, hops,
                   ingests, ingest_result>>
    /\ UNCHANGED extra

\* lines 130-141
schedule_spot832 ==
    ScheduleCall("schedule_spot832",
                 SpotDeleteJob(file_path, relative_path, bl832_settings),
                 "schedule_data832")

\* lines 143-153
schedule_data832 ==
    ScheduleCall("schedule_data832",
                 DataDeleteJob(file_path, relative_path, bl832_settings),
                 "Done")

Next ==
    \/ normalize
    \/ transfer_spot_to_data
    \/ transfer_data_to_nersc
    \/ ingest_scicat
    \/ load_settings
    \/ schedule_spot832
    \/ schedule_data832

Spec == Init /\ [][Next]_vars
(***************************************************************************)
(* test_transfers_832                                                      *)
(***************************************************************************)

\* f"test_{str(uuid.uuid4())}.txt", line 164: a name no path given to the
\* flow holds
UniqueName == <<"test_<uuid4>.txt">>

\* test_scicat: the token is missing, the test passes, or scicat.test raises
ScicatTestOutcomes == {"NoToken", "Passed", "Raised"}

\* lines 166-168: the request of the copy within spot832; no
\* max_wait_seconds is passed
CopyRequest(path, target) ==
    [source_endpoint |-> spot832.name,
     source_path |-> path,
     dest_endpoint |-> spot832.name,
     dest_path |-> target]

InitTest ==
    /\ file_path \in StringsUpTo(MaxLen)
    /\ pc = "test_scicat"
    /\ err = "none"
    /\ relative_path = NoValue
    /\ bl832_settings = NoSettings
    /\ trace = <<>>
    /\ transfers = <<>>
    /\ hops = <<>>
    /\ ingests = <<>>
    /\ ingest_result = "none"
    /\ scheduled = <<>>
    /\ new_file = NoValue
    /\ OutsideInit

\* test_scicat with an ingestion job posted for the file
test_scicat_posts_ingest ==
    /\ pc = "test_scicat"
    /\ trace' = Append(trace, "test_scicat")
    /\ file_path # <<>>
    /\ ingests' = Append(ingests, IngestJob(file_path))
    /\ Goto("copy_file")
    /\ UNCHANGED <<file_path, relative_path, bl832_settings, transfers, hops,
                   ingest_result, scheduled>>
    /\ UNCHANGED extra

\* line 160 and lines 78-83: the connectivity test of the ingestion service
test_scicat ==
    /\ pc = "test_scicat"
    /\ trace' = Append(trace, "test_scicat")
    /\ \E outcome \in ScicatTestOutcomes :
          IF outcome = "Passed" THEN Goto("copy_file")
          ELSE IF outcome = "NoToken" THEN Raise("SecretError")
          ELSE Raise("ScicatError")
    /\ UNCHANGED <<file_path, relative_path, bl832_settings, transfers, hops,
                   ingests, ingest_result, scheduled>>
    /\ UNCHANGED extra

\* lines 161-169: name the new file and copy the file to it within spot832;
\* the result of start_transfer is only logged
copy_file ==
    /\ pc = "copy_file"
    /\ trace' = Append(trace, "copy_file")
    /\ IF path_name(file_path) = <<>>
       THEN Raise("ValueError") /\ UNCHANGED <<new_file, transfers, hops>>
       ELSE /\ new_file' = with_name(file_path, UniqueName)
            /\ \E outcome \in TransferOutcomes :
               \E report \in TransferReports(outcome) :
                  /\ transfers' = Append(transfers,
                                         CopyRequest(file_path, new_file'))
                  /\ hops' = Append(hops, [outcome |-> outcome, report |-> report])
                  /\ IF report = "raise"
                     THEN Raise("TransferError")
                     ELSE Goto("test_transfer_spot_to_data")
    /\ UNCHANGED <<file_path, relative_path, bl832_settings, ingests,
                   ingest_result, scheduled>>
    /\ UNCHANGED outside

\* lines 170-172
test_transfer_spot_to_data ==
    TransferTaskOf(new_file, "test_transfer_spot_to_data", spot832, data832,
                   "test_transfer_data_to_nersc")

\* lines 175-178
test_transfer_data_to_nersc ==
    TransferTaskOf(new_file, "test_transfer_data_to_nersc", data832, nersc832,
                   "Done")

NextTest ==
    \/ test_scicat
    \/ copy_file
    \/ test_transfer_spot_to_data
    \/ test_transfer_data_to_nersc

SpecTest == InitTest /\ [][NextTest]_vars

(***************************************************************************)
(* process_new_832_file with the wait of start_transfer spelled out: the   *)
(* Transfer Monitor submits, then polls at a fixed interval until the      *)
(* collaborator reports a terminal status or the wait exceeds              *)
(* max_wait_seconds.  A call without max_wait_seconds has no deadline of   *)
(* this module's making.                                                   *)
(***************************************************************************)

\* Seconds between two polls of the Transfer Monitor.
PollInterval == 300

InitSample ==
    /\ file_path \in SamplePaths
    /\ pc = "normalize"
    /\ err = "none"
    /\ relative_path = NoValue
    /\ bl832_settings = NoSettings
    /\ trace = <<>>
    /\ transfers = <<>>
    /\ hops = <<>>
    /\ ingests = <<>>
    /\ ingest_result = "none"
    /\ scheduled = <<>>
    /\ new_file = NoValue
    /\ OutsideInit

\* Lines 27-43 and 55-73 up to the submission inside start_transfer; the
\* collaborator will report a terminal status at some poll, or never.
SubmitTransfer(step, source, dest) ==
    /\ pc = step
    /\ trace' = Append(trace, step)
    /\ IF relative_path = <<>>
       THEN Raise("IndexError") /\ UNCHANGED <<transfers, wait>>
       ELSE /\ transfers' = Append(transfers,
                                   TransferRequest(relative_path, source, dest))
            /\ \E reports \in BOOLEAN :
                  wait' = [elapsed |-> 0, reports |-> reports]
            /\ pc' = "wait_" \o step
            /\ err' = err
    /\ UNCHANGED <<file_path, relative_path, bl832_settings, hops, ingests,
                   ingest_result, scheduled, new_file, parked, run_no, previous>>

\* start_transfer returns or raises: the task ends (lines 44-45, 75)
EndWait(outcome, next) ==
    \E report \in TransferReports(outcome) :
       /\ hops' = Append(hops, [outcome |-> outcome, report |-> report])
       /\ IF report = "raise" THEN Raise("TransferError") ELSE Goto(next)
       /\ UNCHANGED wait

\* One poll of the wait inside start_transfer
PollTransfer(step, next) ==
    LET request == transfers[Len(transfers)]
        timed == "max_wait_seconds" \in DOMAIN request
    IN  /\ pc = "wait_" \o step
        /\ IF timed /\ wait.elapsed > request.max_wait_seconds
           THEN EndWait("TimedOut", next)
           ELSE \/ /\ wait.reports
                   /\ \E outcome \in {"Succeeded", "Failed"} : EndWait(outcome, next)
                \/ /\ wait' = [wait EXCEPT !.elapsed =
                                  IF wait.elapsed > max_wait_seconds
                                  THEN wait.elapsed
                                  ELSE wait.elapsed + PollInterval]
                   /\ UNCHANGED <<pc, err, hops>>
        /\ UNCHANGED <<file_path, relative_path, bl832_settings, trace, transfers,
                       ingests, ingest_result, scheduled, new_file, parked,
                       run_no, previous>>

\* line 118, the submission
submit_spot_to_data == SubmitTransfer("transfer_spot_to_data", spot832, data832)

\* line 118, the wait
wait_spot_to_data == PollTransfer("transfer_spot_to_data", "transfer_data_to_nersc")

\* line 121, the submission
submit_data_to_nersc == SubmitTransfer("transfer_data_to_nersc", data832, nersc832)

\* line 121, the wait
wait_data_to_nersc == PollTransfer("transfer_data_to_nersc", "ingest_scicat")

NextLive ==
    \/ normalize
    \/ submit_spot_to_data
    \/ wait_spot_to_data
    \/ submit_data_to_nersc
    \/ wait_data_to_nersc
    \/ ingest_scicat
    \/ load_settings
    \/ schedule_spot832
    \/ schedule_data832

\* The flow run keeps executing: its next statement, its next poll.
SpecLive == InitSample /\ [][NextLive]_vars /\ WF_vars(NextLive)

(***************************************************************************)
(* Two invocations of process_new_832_file for different files, their      *)
(* steps interleaved.  Each invocation has its own file_path,              *)
(* relative_path, config and bl832_settings (lines 107-132); the module's  *)
(* only global, API_KEY (line 17), is assigned at import and not used by   *)
(* the flow.                                                               *)
(***************************************************************************)

\* The locals of the executing invocation and the requests it has issued.
Frame ==
    [file_path |-> file_path, pc |-> pc, err |-> err,
     relative_path |-> relative_path, bl832_settings |-> bl832_settings,
     trace |-> trace, transfers |-> transfers, hops |-> hops,
     ingests |-> ingests, ingest_result |-> ingest_result,
     scheduled |-> scheduled]

\* An invocation that has not executed a statement yet.
NewFrame(fp) ==
    [file_path |-> fp, pc |-> "normalize", err |-> "none",
     relative_path |-> NoValue, bl832_settings |-> NoSettings,
     trace |-> <<>>, transfers |-> <<>>, hops |-> <<>>,
     ingests |-> <<>>, ingest_result |-> "none", scheduled |-> <<>>]

\* The files of the other invocation: one the flow processes, one it
\* rejects.
OtherPaths == { <<SEP, MARKER, SEP, "raw", SEP, "raw">>, <<SEP, "raw">> }

\* One invocation is for /global/raw, the other for another file.
InitTwo ==
    /\ file_path = <<SEP, MARKER, SEP, "raw">>
    /\ pc = "normalize"
    /\ err = "none"
    /\ relative_path = NoValue
    /\ bl832_settings = NoSettings
    /\ trace = <<>>
    /\ transfers = <<>>
    /\ hops = <<>>
    /\ ingests = <<>>
    /\ ingest_result = "none"
    /\ scheduled = <<>>
    /\ new_file = NoValue
    /\ wait = NoWait
    /\ \E other \in OtherPaths : parked = NewFrame(other)
    /\ run_no = 1
    /\ previous = <<>>

\* The other invocation executes next; every local belongs to its own
\* invocation.
SwitchRun(shared_relative_path) ==
    /\ parked' = Frame
    /\ file_path' = parked.file_path
    /\ pc' = parked.pc
    /\ err' = parked.err
    /\ relative_path' = IF shared_relative_path THEN relative_path
                                                ELSE parked.relative_path
    /\ bl832_settings' = parked.bl832_settings
    /\ trace' = parked.trace
    /\ transfers' = parked.transfers
    /\ hops' = parked.hops
    /\ ingests' = parked.ingests
    /\ ingest_result' = parked.ingest_result
    /\ scheduled' = parked.scheduled
    /\ UNCHANGED <<new_file, wait, run_no, previous>>

\* switch_run with relative_path a module-level name that both invocations
\* assign and read
switch_run_shared_relative_path == SwitchRun(TRUE)

\* lines 107-153, the other invocation's turn
switch_run == SwitchRun(FALSE)

NextTwo ==
    \/ normalize
    \/ transfer_spot_to_data
    \/ transfer_data_to_nersc
    \/ ingest_scicat
    \/ load_settings
    \/ schedule_spot832
    \/ schedule_data832
    \/ switch_run

SpecTwo == InitTwo /\ [][NextTwo]_vars

(***************************************************************************)
(* process_new_832_file called again for the same file after a run that    *)
(* failed: the call starts at line 108 with new locals.  previous keeps    *)
(* what the earlier calls requested, for comparison only: no statement of  *)
(* the flow reads it.                                                      *)
(***************************************************************************)

\* The requests of the invocation, the deletion jobs without their delay
\* (the settings may change between two invocations).
Requested ==
    [transfers |-> transfers,
     ingests |-> ingests,
     jobs |-> [i \in 1..Len(scheduled) |->
                  [flow |-> scheduled[i].job.flow,
                   flow_name |-> scheduled[i].job.flow_name,
                   parameters |-> scheduled[i].job.parameters]]]

\* The call after a failed run, starting at the given statement with the
\* given relative_path.
Reinvoke(first, rel) ==
    /\ pc = "Failed"
    /\ run_no < MaxRuns
    /\ run_no' = run_no + 1
    /\ previous' = Append(previous, Requested)
    /\ pc' = first
    /\ err' = "none"
    /\ relative_path' = rel
    /\ bl832_settings' = NoSettings
    /\ trace' = <<>>
    /\ transfers' = <<>>
    /\ hops' = <<>>
    /\ ingests' = <<>>
    /\ ingest_result' = "none"
    /\ scheduled' = <<>>
    /\ UNCHANGED <<file_path, new_file, wait, parked>>

\* reinvoke resuming at the statement that failed, with the relative_path
\* of the failed run
reinvoke_resumes == Reinvoke(trace[Len(trace)], relative_path)

\* lines 107-117: the flow function is entered again
reinvoke == Reinvoke("normalize", NoValue)

NextRerun ==
    \/ normalize
    \/ transfer_spot_to_data
    \/ transfer_data_to_nersc
    \/ ingest_scicat
    \/ load_settings
    \/ schedule_spot832
    \/ schedule_data832
    \/ reinvoke

SpecRerun == InitSample /\ [][NextRerun]_vars

(***************************************************************************)
(* Vocabulary of the properties                                            *)
(***************************************************************************)

Range(seq) == {seq[i] : i \in 1..Len(seq)}

Terminated == pc \in {"Done", "Failed"}

\* Hop i was submitted and start_transfer reported the outcome as its result
\* or by raising.
HopIs(i, outcomes) == Len(hops) >= i /\ hops[i].outcome \in outcomes

HopFailed(i) == HopIs(i, {"TimedOut", "Failed"})

HopSucceeded(i) == HopIs(i, {"Succeeded"})

\* The path holds a segment that is exactly the marker.
HasMarkerSegment(p) == <<MARKER>> \in Range(Segments(p))

\* The remainder of the path from the first segment after the first marker
\* segment on.
RestAfterMarker(p) ==
    LET segs == Segments(p)
        at == {i \in 1..Len(segs) : segs[i] = <<MARKER>>}
        first == CHOOSE i \in at : \A j \in at : i <= j
    IN  JoinSegments(SubSeq(segs, first + 1, Len(segs)))

\* A path as the app on spot832 reports it (comment of lines 113-115):
\* /global/raw... without empty segments.
ValidInstrumentPath(p) ==
    LET segs == Segments(p)
    IN  /\ MatchAt(p, <<SEP, MARKER, SEP, "raw">>, 1)
        /\ \A i \in 2..Len(segs) : segs[i] # <<>>

\* root and rest with exactly one separator between them
RootedAt(root, rest) ==
    IF root[Len(root)] = SEP THEN root \o rest ELSE root \o <<SEP>> \o rest

(***************************************************************************)
(* Failure propagation                                                     *)
(***************************************************************************)

\* C1: in a run for a valid instrument path, once the data832 -> nersc832
\* transfer has ended TimedOut or Failed (reported as the result or by
\* raising), the ingestion submission and schedule_prefect_flow are invoked
\* 0 times.
C1_ArchiveFailureStopsIngestAndDeletes ==
    (ValidInstrumentPath(file_path) /\ HopSucceeded(1) /\ HopFailed(2)) =>
        /\ ingests = <<>>
        /\ scheduled = <<>>

\* C2: in a run for a valid instrument path, once the spot832 -> data832
\* transfer has ended TimedOut or Failed the run is halted failed: no second
\* transfer, no ingestion job, no deletion job.
C2_FacilityFailureHaltsRun ==
    (ValidInstrumentPath(file_path) /\ HopFailed(1)) =>
        /\ pc = "Failed"
        /\ Len(transfers) = 1
        /\ ingests = <<>>
        /\ scheduled = <<>>

\* C3: a run for a valid instrument path in which both transfers succeeded
\* and the ingestion step failed (job rejected, or the submission raised)
\* ends with both deletion scheduling calls made, each with its own retention
\* setting, unless the settings or the scheduler failed.
C3_IngestFailureStillSchedulesDeletes ==
    ( /\ Terminated
      /\ ValidInstrumentPath(file_path)
      /\ HopSucceeded(1)
      /\ HopSucceeded(2)
      /\ ingest_result \in {"Rejected", "Raised"}
      /\ err \notin {"BlockError", "KeyError", "SchedulingError"} ) =>
        /\ Len(scheduled) = 2
        /\ scheduled[1].job.flow = "prune_spot832/prune_spot832"
        /\ scheduled[1].job.days = bl832_settings[SpotDaysKey]
        /\ scheduled[2].job.flow = "prune_data832/prune_data832"
        /\ scheduled[2].job.days = bl832_settings[DataDaysKey]
(***************************************************************************)
(* Order of the steps and the deferred deletion jobs                       *)
(***************************************************************************)

\* The order the pipeline is specified to follow.
PipelineOrder ==
    <<"normalize", "transfer_spot_to_data", "transfer_data_to_nersc",
      "ingest_scicat", "schedule_spot832", "schedule_data832">>

IsPipelineStep(step) == step \in Range(PipelineOrder)

IsPrefix(s, t) == Len(s) <= Len(t) /\ s = SubSeq(t, 1, Len(s))

\* C4: the steps a run has invoked are always an initial part of normalize,
\* transfer spot832->data832, transfer data832->nersc832, ingest, schedule
\* delete spot832, schedule delete data832: nothing is skipped, repeated or
\* reordered; the first request goes spot832 -> data832, the second data832
\* -> nersc832, the ingestion job follows both and the deletion jobs follow it.
C4_StepsInPipelineOrder ==
    /\ IsPrefix(SelectSeq(trace, IsPipelineStep), PipelineOrder)
    /\ Len(transfers) <= 2
    /\ Len(transfers) >= 1 =>
          /\ transfers[1].source_endpoint = "spot832"
          /\ transfers[1].dest_endpoint = "data832"
    /\ Len(transfers) = 2 =>
          /\ transfers[2].source_endpoint = "data832"
          /\ transfers[2].dest_endpoint = "nersc832"
    /\ Len(ingests) <= 1
    /\ ingests # <<>> => Len(transfers) = 2
    /\ scheduled # <<>> => "ingest_scicat" \in Range(trace)

C4_Witness ==
    pc = "Done" /\ SelectSeq(trace, IsPipelineStep) = PipelineOrder

\* The calls of schedule_prefect_flow for one prune flow.
CallsFor(flow) == {i \in 1..Len(scheduled) : scheduled[i].job.flow = flow}

\* C5: a run that reached Done made exactly two schedule_prefect_flow calls,
\* both accepted: one for the spot832 prune flow, one for the data832 one.
C5_DoneHasOneDeleteJobPerTier ==
    pc = "Done" =>
        /\ Len(scheduled) = 2
        /\ Cardinality(CallsFor("prune_spot832/prune_spot832")) = 1
        /\ Cardinality(CallsFor("prune_data832/prune_data832")) = 1
        /\ \A i \in 1..2 : scheduled[i].outcome = "Accepted"

C5_Witness ==
    pc = "Done" /\ Len(scheduled) = 2 /\ HopSucceeded(1) /\ HopSucceeded(2)

\* C6: the first deletion job targets the spot832 prune flow with the spot832
\* retention days, the second the data832 prune flow with the data832
\* retention days, and both carry the same relative_path parameter.
C6_DeleteJobsUseOwnRetention ==
    /\ Len(scheduled) >= 1 =>
          /\ scheduled[1].job.flow = "prune_spot832/prune_spot832"
          /\ scheduled[1].job.days = bl832_settings[SpotDaysKey]
    /\ Len(scheduled) >= 2 =>
          /\ scheduled[2].job.flow = "prune_data832/prune_data832"
          /\ scheduled[2].job.days = bl832_settings[DataDaysKey]
          /\ scheduled[2].job.parameters = scheduled[1].job.parameters

C6_Witness ==
    /\ Len(scheduled) = 2
    /\ bl832_settings[SpotDaysKey] = 14
    /\ bl832_settings[DataDaysKey] = 30
    /\ scheduled[1].job.days = 14
    /\ scheduled[2].job.days = 30
(***************************************************************************)
(* Path normalization                                                      *)
(***************************************************************************)

\* C7: a run whose input path has no marker segment fails in normalization:
\* no transfer is submitted, no ingestion job posted, no deletion job
\* registered.
C7_NoMarkerSegmentFailsRun ==
    (~HasMarkerSegment(file_path) /\ pc # "normalize") =>
        /\ pc = "Failed"
        /\ err = "IndexError"
        /\ relative_path = NoValue
        /\ transfers = <<>>
        /\ ingests = <<>>
        /\ scheduled = <<>>

\* C8: normalizing the relative path of a valid instrument path again
\* succeeds and yields the same relative path.
C8_NormalizeIdempotent ==
    (ValidInstrumentPath(file_path) /\ relative_path # NoValue) =>
        LET again == split_global(relative_path)
        IN  Len(again) >= 2 /\ again[2] = relative_path

\* C9: for a valid instrument path the relative path is the whole remainder
\* after the marker segment, and every request is built from it: hop 1 from
\* <spot832 root>/<rest> to <data832 root>/<rest>, hop 2 from
\* <data832 root>/<rest> to <nersc832 root>/<rest>, the ingestion path
\* /data_mover/8.3.2/<rest>.
C9_RemainderUsedAtEveryStep ==
    (ValidInstrumentPath(file_path) /\ pc # "normalize") =>
        LET rest == RestAfterMarker(file_path)
        IN  /\ relative_path # NoValue
            /\ relative_path # <<>>
            /\ strip_leading_sep(relative_path) = rest
            /\ err # "IndexError"
            /\ Len(transfers) >= 1 =>
                  /\ transfers[1].source_path = RootedAt(spot832.root_path, rest)
                  /\ transfers[1].dest_path = RootedAt(data832.root_path, rest)
            /\ Len(transfers) >= 2 =>
                  /\ transfers[2].source_path = RootedAt(data832.root_path, rest)
                  /\ transfers[2].dest_path = RootedAt(nersc832.root_path, rest)
            /\ Len(ingests) >= 1 =>
                  ingests[1].ingest_path =
                      <<SEP, "data_mover", SEP, "8.3.2", SEP>> \o rest

\* C10: the relative path of a valid instrument path never begins with a
\* separator, neither as the flow's value nor as the relative_path parameter
\* of a deletion job.
C10_RelativePathHasNoLeadingSeparator ==
    LET NoLeadingSep(p) == p = <<>> \/ p[1] # SEP
    IN  ValidInstrumentPath(file_path) =>
            /\ relative_path # NoValue => NoLeadingSep(relative_path)
            /\ \A i \in 1..Len(scheduled) :
                  NoLeadingSep(scheduled[i].job.parameters.relative_path)
(***************************************************************************)
(* Empty paths, scheduler rejection, retries, settings                     *)
(***************************************************************************)

\* C11: a transfer task given the empty path does not crash: it joins the
\* path with the endpoint root (the root itself) and submits its request.
C11_EmptyPathDoesNotCrashTask ==
    (relative_path = <<>> /\ "transfer_spot_to_data" \in Range(trace)) =>
        /\ err # "IndexError"
        /\ Len(transfers) >= 1
        /\ transfers[1].source_path \in
              {spot832.root_path, spot832.root_path \o <<SEP>>}

\* C12: in a run for a valid instrument path a registration the scheduler
\* rejects is not fatal: the run does not end failed because of it.
C12_SchedulerRejectionNotFatal ==
    ( /\ ValidInstrumentPath(file_path)
      /\ \E i \in 1..Len(scheduled) : scheduled[i].outcome = "Rejected" ) =>
        /\ pc # "Failed"
        /\ err # "SchedulingError"

\* The requests submitted for the hop that leaves one endpoint.
SubmissionsFrom(endpoint) ==
    {i \in 1..Len(transfers) : transfers[i].source_endpoint = endpoint}

\* C18: each hop is submitted at most once whatever its outcome, and a run
\* in which both hops succeeded has made exactly two submissions, one
\* spot832 -> data832 and one data832 -> nersc832.
C18_OneSubmissionPerHop ==
    /\ Cardinality(SubmissionsFrom("spot832")) <= 1
    /\ Cardinality(SubmissionsFrom("data832")) <= 1
    /\ Len(hops) = Len(transfers)
    /\ (HopSucceeded(1) /\ HopSucceeded(2)) =>
          /\ Len(transfers) = 2
          /\ Cardinality(SubmissionsFrom("spot832")) = 1
          /\ Cardinality(SubmissionsFrom("data832")) = 1

C18_Witness ==
    /\ Terminated
    /\ HopFailed(1)
    /\ HopFailed(2)
    /\ hops[2].report = "return"
    /\ Len(transfers) = 2

\* C19: a settings lookup that fails (block unreadable, or a retention key
\* missing for either tier) leaves zero deletion jobs; a run that ends with
\* one job only ends so because the scheduler rejected a registration.
C19_SettingsReadBeforeFirstJob ==
    /\ err \in {"KeyError", "BlockError"} => scheduled = <<>>
    /\ (Terminated /\ Len(scheduled) = 1) => err = "SchedulingError"

C19_Witness ==
    /\ err = "KeyError"
    /\ DOMAIN bl832_settings = {SpotDaysKey}
    /\ scheduled = <<>>
(***************************************************************************)
(* The smoke test                                                          *)
(***************************************************************************)

\* The root path of a named endpoint.
RootOf(name) ==
    IF name = "spot832" THEN spot832.root_path
    ELSE IF name = "data832" THEN data832.root_path
    ELSE nersc832.root_path

\* A path is built the common way: the endpoint's root joined with the path
\* after one leading separator is stripped.
BuiltFromRoot(built, endpoint, path) ==
    built = os_path_join(RootOf(endpoint), strip_leading_sep(path))

\* A path such as the default /raw/transfer_tests/test.txt: absolute, without
\* empty segments.
AbsoluteTestPath(p) ==
    /\ MatchAt(p, <<SEP, "raw">>, 1)
    /\ \A i \in 2..Len(Segments(p)) : Segments(p)[i] # <<>>

\* C13: every transfer test_transfers_832 submits for an absolute test path
\* has its source and destination paths built the common way, the copy
\* within spot832 (from file_path to new_file) included.
C13_EveryTransferBuiltFromRoot ==
    AbsoluteTestPath(file_path) =>
        /\ Len(transfers) >= 1 =>
              /\ BuiltFromRoot(transfers[1].source_path, "spot832", file_path)
              /\ BuiltFromRoot(transfers[1].dest_path, "spot832", new_file)
        /\ \A i \in 2..Len(transfers) :
              /\ BuiltFromRoot(transfers[i].source_path,
                               transfers[i].source_endpoint, new_file)
              /\ BuiltFromRoot(transfers[i].dest_path,
                               transfers[i].dest_endpoint, new_file)

\* The order of the smoke test.
SmokeTestOrder ==
    <<"test_scicat", "copy_file", "test_transfer_spot_to_data",
      "test_transfer_data_to_nersc">>

\* C17: test_transfers_832 performs, in this order, the connectivity test,
\* the copy within spot832 to a new file of another name, the spot832 ->
\* data832 transfer and the data832 -> nersc832 transfer of the new file; it
\* never posts an ingestion job and never registers a deletion job.
C17_SmokeTestOrderNoSideEffects ==
    /\ IsPrefix(trace, SmokeTestOrder)
    /\ ingests = <<>>
    /\ scheduled = <<>>
    /\ Len(transfers) <= 3
    /\ Len(transfers) >= 1 =>
          /\ "test_scicat" \in Range(trace)
          /\ transfers[1].source_endpoint = "spot832"
          /\ transfers[1].dest_endpoint = "spot832"
          /\ transfers[1].source_path = file_path
          /\ transfers[1].dest_path = new_file
          /\ path_name(new_file) = UniqueName
          /\ new_file # file_path
    /\ Len(transfers) >= 2 =>
          transfers[2] = TransferRequest(new_file, spot832, data832)
    /\ Len(transfers) >= 3 =>
          transfers[3] = TransferRequest(new_file, data832, nersc832)

C17_Witness ==
    /\ pc = "Done"
    /\ trace = SmokeTestOrder
    /\ Len(transfers) = 3
(***************************************************************************)
(* Bounded waiting                                                         *)
(***************************************************************************)

\* C14: every run of process_new_832_file eventually ends, Done or failed,
\* also when the transfer collaborator never reports a terminal status, and
\* every request it submits carries the deadline max_wait_seconds = 600.
C14_RunEndsUnderDeadline ==
    /\ <>Terminated
    /\ [](\A i \in 1..Len(transfers) :
             /\ "max_wait_seconds" \in DOMAIN transfers[i]
             /\ transfers[i].max_wait_seconds = 600)

C14_Witness ==
    /\ Terminated
    /\ Len(hops) = 2
    /\ hops[2].outcome = "TimedOut"
    /\ ~wait.reports
    /\ wait.elapsed > 600

(***************************************************************************)
(* Independence of invocations                                             *)
(***************************************************************************)

\* Settings that hold both retention keys.
CompleteSettings ==
    {value \in SettingsValues : {SpotDaysKey, DataDaysKey} \subseteq DOMAIN value}

\* The deletion jobs of a run for path p with relative path rel, for each
\* settings value (lines 130-149); @@ tabulates the function once.
JobsAlone(p, rel) ==
    [value \in CompleteSettings |->
        <<SpotDeleteJob(p, rel, value), DataDeleteJob(p, rel, value)>>] @@ <<>>

\* The requests a run of process_new_832_file, alone, issues for a sample
\* path when every step succeeds: lines 117-149 applied to the path and to
\* the settings the run reads.
RunAlone ==
    [p \in SamplePaths |->
        LET pieces == split_global(p)
        IN  IF Len(pieces) < 2 \/ pieces[2] = <<>>
            THEN [transfers |-> <<>>, ingests |-> <<>>,
                  jobs |-> [value \in CompleteSettings |-> <<>>]]
            ELSE [transfers |-> <<TransferRequest(pieces[2], spot832, data832),
                                  TransferRequest(pieces[2], data832, nersc832)>>,
                  ingests |-> <<IngestJob(pieces[2])>>,
                  jobs |-> JobsAlone(p, pieces[2])]] @@ <<>>

\* The requests in a frame are an initial part of the ones a run alone
\* issues for the frame's own file_path and the settings the frame's own
\* run read.
IssuedFromOwnInput(f) ==
    /\ IsPrefix(f.transfers, RunAlone[f.file_path].transfers)
    /\ IsPrefix(f.ingests, RunAlone[f.file_path].ingests)
    /\ f.scheduled # <<>> =>
          /\ f.bl832_settings \in CompleteSettings
          /\ Len(f.scheduled) <= Len(RunAlone[f.file_path].jobs[f.bl832_settings])
          /\ \A i \in 1..Len(f.scheduled) :
                f.scheduled[i].job =
                   RunAlone[f.file_path].jobs[f.bl832_settings][i]

\* C15: with two runs for different files interleaved in any way, the
\* requests of each run (paths, endpoints, job parameters, delays) are the
\* ones the run issues alone for its own file and settings.
C15_InterleavedRunsIndependent ==
    /\ IssuedFromOwnInput(Frame)
    /\ IssuedFromOwnInput(parked)

C15_Witness ==
    /\ pc = "load_settings"
    /\ Len(transfers) = 2
    /\ Len(ingests) = 1
    /\ parked.pc = "transfer_data_to_nersc"
    /\ Len(parked.transfers) = 1
    /\ parked.relative_path # relative_path

\* The two sequences agree wherever both have an element.
AgreeWhereBoth(s, t) ==
    \A i \in 1..Len(s) : i <= Len(t) => s[i] = t[i]

\* C16: a call for the same file after a failed run starts with new locals
\* at the normalization, follows the pipeline order from there without
\* skipping a step, and its requests are the ones every earlier call issued
\* at the same position.
C16_ReinvokedRunSelfContained ==
    /\ pc = "normalize" => Frame = NewFrame(file_path)
    /\ IsPrefix(SelectSeq(trace, IsPipelineStep), PipelineOrder)
    /\ \A k \in 1..Len(previous) :
          /\ AgreeWhereBoth(Requested.transfers, previous[k].transfers)
          /\ AgreeWhereBoth(Requested.ingests, previous[k].ingests)
          /\ AgreeWhereBoth(Requested.jobs, previous[k].jobs)

C16_Witness ==
    /\ run_no = 2
    /\ pc = "Done"
    /\ Len(previous[1].transfers) = 2
    /\ Len(previous[1].jobs) = 1

====
